---- MODULE Spec2Model ----
(***************************************************************************)
(* A model of implicit-feedback-recommender-system.ipynb: the notebook's   *)
(* cells run in order over a loaded ratings table.  create_X builds the    *)
(* id mappers and the sparse interaction matrix, model.fit trains on it,   *)
(* model.similar_items and model.recommend query the trained model.        *)
(*                                                                         *)
(* pandas, numpy, scipy and implicit are external libraries: each call is  *)
(* modelled by what the call does at the place the notebook makes it       *)
(* (its documented behaviour and the outputs recorded in the notebook).    *)
(* What the libraries compute inside (the ALS solves, the factor values,   *)
(* the top-k selection) is not part of the notebook and is not modelled.   *)
(***************************************************************************)
EXTENDS Integers, Sequences, FiniteSets, TLC

\* Bounds of the model: the size of the loaded table and of its id and
\* rating ranges.
MaxRecords == 2
MaxUserId == 2
MaxMovieId == 2
MaxRating == 1

\* similar_items is called without N (line 242); ten ids come back (line 223).
DefaultN == 10

\* the float32 scores are held in thousandths: ScoreUnit is the score 1.0
ScoreUnit == 1000

UserIds == 1..MaxUserId
MovieIds == 1..MaxMovieId
RatingValues == 0..MaxRating
Record == [userId : UserIds, movieId : MovieIds, rating : RatingValues]

\* the titles of the catalogue, by movieId
TitleList == <<"Toy Story (1995)", "Jumanji (1995)", "Grumpier Old Men (1995)",
               "Waiting to Exhale (1995)">>

\* movies.csv: one row per movie id, rated or not, each with its title
Catalogue == [i \in 1..MaxMovieId |-> [movieId |-> i, title |-> TitleList[i]]]

VARIABLES
    pc,                 \* the next cell to run
    ratings,            \* the ratings dataframe, a sequence of records
    movies,             \* the movies dataframe, a sequence of rows
    movie_title_mapper, movie_title_inv_mapper,
    fuzzy_title,        \* movie_finder(movie_of_interest)
    movie_index_g,      \* the global movie_index: the outcome of get_movie_index
    user_id,            \* the user the recommendations are asked for
    user_idx,           \* the outcome of user_mapper[user_id]
    X,                  \* the matrix create_X returns
    user_mapper, movie_mapper, user_inv_mapper, movie_inv_mapper,
    model,              \* implicit.als.AlternatingLeastSquares
    related,            \* the outcome of model.similar_items(movie_index)
    display,            \* what the cell that prints the related titles did
    recommendations     \* the outcome of model.recommend(user_idx, X_t)

vars == <<pc, ratings, movies, movie_title_mapper, movie_title_inv_mapper,
          fuzzy_title, movie_index_g, user_id, user_idx, X, user_mapper,
          movie_mapper, user_inv_mapper, movie_inv_mapper, model, related,
          display, recommendations>>

mappers == <<user_mapper, movie_mapper, user_inv_mapper, movie_inv_mapper>>
title_mappers == <<movie_title_mapper, movie_title_inv_mapper>>
queries == <<fuzzy_title, movie_index_g, user_id, user_idx>>

---------------------------------------------------------------------------
\* pandas / numpy / builtins, as create_X uses them

Min(a, b) == IF a <= b THEN a ELSE b

Range(s) == {s[i] : i \in DOMAIN s}

\* df['userId'], df['movieId'], df['rating']
Column(df, f) == [i \in 1..Len(df) |-> df[i][f]]

\* Series.nunique()
nunique(s) == Cardinality(Range(s))

RECURSIVE SortedSeq(_)
SortedSeq(S) ==
    IF S = {} THEN <<>>
    ELSE LET m == CHOOSE x \in S : \A y \in S : x <= y
         IN  <<m>> \o SortedSeq(S \ {m})

\* np.unique(s): the sorted distinct values of s
np_unique(s) == SortedSeq(Range(s))

\* list(range(1, n + 1)): dense indices counted from one
range_from_one(n) == [i \in 1..n |-> i]

\* list(range(n))
range(n) == [i \in 1..n |-> i - 1]

\* zip(a, b): pairs up to the shorter argument
zip(a, b) == [i \in 1..Min(Len(a), Len(b)) |-> <<a[i], b[i]>>]

\* dict(pairs): a later pair with the same key replaces an earlier one
dict(pairs) ==
    [k \in {pairs[i][1] : i \in DOMAIN pairs} |->
        LET last == CHOOSE i \in DOMAIN pairs :
                        /\ pairs[i][1] = k
                        /\ \A j \in DOMAIN pairs : pairs[j][1] = k => j <= i
        IN  pairs[last][2]]

\* d[k] of a dict: KeyError for a key the dict does not hold
getitem(d, k) ==
    IF k \in DOMAIN d THEN [status |-> "ok", value |-> d[k]]
    ELSE [status |-> "KeyError", value |-> 0]

---------------------------------------------------------------------------
\* scipy.sparse.csr_matrix((data, (row, col)), shape=(R, C))

RECURSIVE SumAt(_, _, _, _, _, _)
\* the sum of data[k'] over k' <= k with (row[k'], col[k']) = (i, j)
SumAt(data, row, col, i, j, k) ==
    IF k = 0 THEN 0
    ELSE SumAt(data, row, col, i, j, k - 1)
         + (IF row[k] = i /\ col[k] = j THEN data[k] ELSE 0)

\* the last data[k] with (row[k], col[k]) = (i, j): an overwriting insert
LastAt(data, row, col, i, j) ==
    LET last == CHOOSE k \in DOMAIN data :
                    /\ row[k] = i /\ col[k] = j
                    /\ \A k2 \in DOMAIN data :
                           (row[k2] = i /\ col[k2] = j) => k2 <= k
    IN  data[last]

\* a cell's stored value, duplicates overwritten instead of summed
CellValueLast(data, row, col, i, j) == LastAt(data, row, col, i, j)

\* a cell's stored value: the COO triples are converted to CSR with the
\* entries of one (row, col) summed
CellValue(data, row, col, i, j) == SumAt(data, row, col, i, j, Len(data))

\* the constructor with the two index lists taken in the other order
csr_matrix_swapped(data, row, col, shape, axes) ==
    [ok    |-> \A k \in DOMAIN data :
                   /\ col[k] \in 0..(shape[1] - 1)
                   /\ row[k] \in 0..(shape[2] - 1),
     shape |-> shape,
     axes  |-> axes,
     cells |-> [c \in {<<col[k], row[k]>> : k \in DOMAIN data} |->
                   CellValue(data, col, row, c[1], c[2])]]

\* ok is FALSE where scipy raises ValueError (an index outside the shape);
\* cells holds the stored entries, every other cell is implicit;
\* axes names what the rows and the columns stand for
csr_matrix(data, row, col, shape, axes) ==
    [ok    |-> \A k \in DOMAIN data :
                   /\ row[k] \in 0..(shape[1] - 1)
                   /\ col[k] \in 0..(shape[2] - 1),
     shape |-> shape,
     axes  |-> axes,
     cells |-> [c \in {<<row[k], col[k]>> : k \in DOMAIN data} |->
                   CellValue(data, row, col, c[1], c[2])]]

\* X[i, j]: an entry that is not stored reads 0
Get(mat, i, j) ==
    IF <<i, j>> \in DOMAIN mat.cells THEN mat.cells[<<i, j>>] ELSE 0

\* X.T.tocsr()
Transpose(mat) ==
    [ok    |-> mat.ok,
     shape |-> <<mat.shape[2], mat.shape[1]>>,
     axes  |-> <<mat.axes[2], mat.axes[1]>>,
     cells |-> [c \in {<<d[2], d[1]>> : d \in DOMAIN mat.cells} |->
                   mat.cells[<<c[2], c[1]>>]]]

NoMatrix == [ok |-> FALSE, shape |-> <<0, 0>>, axes |-> <<"none", "none">>,
             cells |-> <<>>]

---------------------------------------------------------------------------
\* create_X(df)

create_X(df) ==
    LET N == nunique(Column(df, "userId"))
        M == nunique(Column(df, "movieId"))
        um  == dict(zip(np_unique(Column(df, "userId")), range(N)))
        mm  == dict(zip(np_unique(Column(df, "movieId")), range(M)))
        uim == dict(zip(range(N), np_unique(Column(df, "userId"))))
        mim == dict(zip(range(M), np_unique(Column(df, "movieId"))))
        user_index  == [i \in 1..Len(df) |-> um[df[i].userId]]
        movie_index == [i \in 1..Len(df) |-> mm[df[i].movieId]]
    IN  [X |-> csr_matrix(Column(df, "rating"), movie_index, user_index,
                          <<M, N>>, <<"movie", "user">>),
         user_mapper |-> um, movie_mapper |-> mm,
         user_inv_mapper |-> uim, movie_inv_mapper |-> mim]

---------------------------------------------------------------------------
\* the movie title helpers

\* movie_finder(title): process.extractOne returns the closest of all_titles,
\* always one of the catalogue's titles
movie_finder(movs) == Range(Column(movs, "title"))

NoIndex == [called |-> FALSE, status |-> "none", movie_idx |-> 0]

\* the lookup that registers an id it does not know under the next free index
get_movie_index_setdefault(fuzzy, mtm, mm) ==
    LET movie_id == mtm[fuzzy]
        mm2 == IF movie_id \in DOMAIN mm THEN mm
               ELSE [k \in DOMAIN mm \cup {movie_id} |->
                        IF k \in DOMAIN mm THEN mm[k]
                        ELSE Cardinality(DOMAIN mm)]
    IN  [result |-> [called |-> TRUE, status |-> "ok",
                     movie_idx |-> mm2[movie_id]],
         movie_mapper |-> mm2]

\* get_movie_index(title), given fuzzy = movie_finder(title): the result and
\* movie_mapper as the call leaves it.  movie_mapper[movie_id] raises KeyError
\* for an id that is not a key of the dict
get_movie_index(fuzzy, mtm, mm) ==
    LET movie_id == mtm[fuzzy]
        movie_idx == getitem(mm, movie_id)
    IN  [result |-> [called |-> TRUE, status |-> movie_idx.status,
                     movie_idx |-> movie_idx.value],
         movie_mapper |-> mm]

---------------------------------------------------------------------------
\* implicit.als.AlternatingLeastSquares

NoModel == [fitted |-> FALSE, user_rows |-> 0, item_rows |-> 0,
            users_axis |-> "none", items_axis |-> "none"]

\* model.fit(user_items): the rows of the argument are the trainer's users,
\* its columns the trainer's items; one factor row per row / per column
fit(user_items) ==
    [fitted     |-> TRUE,
     user_rows  |-> user_items.shape[1],
     item_rows  |-> user_items.shape[2],
     users_axis |-> user_items.axes[1],
     items_axis |-> user_items.axes[2]]

NoRelated == [called |-> FALSE, itemid |-> 0, status |-> "none", ids |-> <<>>,
              scores |-> <<>>]

\* the scores a row other than the queried one may come back with
OtherScores == {0, ScoreUnit \div 2}

\* the injective sequences of length n over S
Arrangements(S, n) ==
    {s \in [1..n -> S] : \A i, j \in 1..n : i # j => s[i] # s[j]}

\* the outcomes of model.similar_items(itemid): item_factors[itemid] raises
\* IndexError outside the factor rows; otherwise min(N, rows) row indices come
\* back, the queried row first with score 1.0 (lines 223-225), the others in
\* an order and with scores the trained factors decide.  The result is the
\* pair (ids, scores) of two arrays of equal length
similar_items(m, itemid) ==
    IF itemid \notin 0..(m.item_rows - 1)
    THEN {[called |-> TRUE, itemid |-> itemid, status |-> "IndexError",
           ids |-> <<>>, scores |-> <<>>]}
    ELSE {[called |-> TRUE, itemid |-> itemid, status |-> "ok",
           ids |-> <<itemid>> \o rest, scores |-> <<ScoreUnit>> \o sc] :
             rest \in Arrangements((0..(m.item_rows - 1)) \ {itemid},
                                   Min(DefaultN, m.item_rows) - 1),
             sc \in [1..(Min(DefaultN, m.item_rows) - 1) -> OtherScores]}

---------------------------------------------------------------------------
\* the cell that prints the related titles

\* iterating related, the tuple (ids, scores): its two arrays, one after the
\* other
tuple_items(rel) ==
    <<[source |-> "ids", values |-> rel.ids],
      [source |-> "scores", values |-> rel.scores]>>

\* the dict key a value r[0] is: an id is the integer it is, a float equals an
\* integer key only when it is integral (1.0 is the key 1); -1 is no key
as_key(source, v) ==
    IF source = "ids" THEN v
    ELSE IF v % ScoreUnit = 0 THEN v \div ScoreUnit ELSE -1

\* get_movie_title(movie_idx)
get_movie_title(key, mim, mtim) ==
    LET movie_id == getitem(mim, key)
    IN  IF movie_id.status # "ok" THEN [status |-> "KeyError", title |-> "none"]
        ELSE LET title == getitem(mtim, movie_id.value)
             IN  IF title.status # "ok"
                 THEN [status |-> "KeyError", title |-> "none"]
                 ELSE [status |-> "ok", title |-> title.value]

NoDisplay == [called |-> FALSE, status |-> "none", calls |-> <<>>,
              printed |-> <<>>]

RECURSIVE display_loop(_, _, _, _, _, _)
\* for r in related: recommended_title = get_movie_title(r[0]); print it unless
\* it is the title of the movie of interest.  items is what the loop iterates,
\* i the position reached, acc the calls made and the titles printed so far;
\* an exception of get_movie_title ends the loop
display_loop(items, i, fuzzy, mim, mtim, acc) ==
    IF i > Len(items) THEN [acc EXCEPT !.status = "ok"]
    ELSE LET r == items[i]
             arg == [source |-> r.source, value |-> r.values[1]]
             got == get_movie_title(as_key(r.source, r.values[1]), mim, mtim)
             called == [acc EXCEPT !.calls = Append(@, arg)]
         IN  IF got.status # "ok" THEN [called EXCEPT !.status = "KeyError"]
             ELSE display_loop(items, i + 1, fuzzy, mim, mtim,
                      IF got.title # fuzzy
                      THEN [called EXCEPT !.printed = Append(@, got.title)]
                      ELSE called)

\* the cell as a whole: related is unassigned (NameError) when the cell before
\* raised, in get_movie_index or in similar_items
display_related(rel, fuzzy, mim, mtim) ==
    IF rel.status # "ok"
    THEN [called |-> TRUE, status |-> "NameError", calls |-> <<>>,
          printed |-> <<>>]
    ELSE display_loop(tuple_items(rel), 1, fuzzy, mim, mtim,
                      [called |-> TRUE, status |-> "running", calls |-> <<>>,
                       printed |-> <<>>])

NoRecommendations == [called |-> FALSE, userid |-> 0, rows |-> 0,
                      rows_axis |-> "none", status |-> "none"]

\* the row check that accepts any argument with at least one row
recommend_atleast(m, userid, user_items) ==
    [called |-> TRUE, userid |-> userid, rows |-> user_items.shape[1],
     rows_axis |-> user_items.axes[1],
     status |-> IF user_items.shape[1] < 1 THEN "ValueError" ELSE "shape_ok"]

\* model.recommend(userid, user_items) with a scalar userid and the default
\* filter_already_liked_items=True: "user_items must contain 1 row for every
\* user in userids" (lines 501-502) unless the argument has exactly one row.
\* The ranking that follows an accepted argument happens inside the library.
recommend(m, userid, user_items) ==
    [called |-> TRUE, userid |-> userid, rows |-> user_items.shape[1],
     rows_axis |-> user_items.axes[1],
     status |-> IF user_items.shape[1] # 1 THEN "ValueError" ELSE "shape_ok"]

---------------------------------------------------------------------------
\* the notebook's cells

Init ==
    /\ pc = "create_X"
    /\ ratings \in UNION {[1..n -> Record] : n \in 1..MaxRecords}
    /\ movies = Catalogue
    /\ movie_title_mapper = <<>>
    /\ movie_title_inv_mapper = <<>>
    /\ fuzzy_title = "none"
    /\ movie_index_g = NoIndex
    /\ display = NoDisplay
    /\ user_id = 0
    /\ user_idx = [called |-> FALSE, status |-> "none", value |-> 0]
    /\ X = NoMatrix
    /\ user_mapper = <<>>
    /\ movie_mapper = <<>>
    /\ user_inv_mapper = <<>>
    /\ movie_inv_mapper = <<>>
    /\ model = NoModel
    /\ related = NoRelated
    /\ recommendations = NoRecommendations

\* X, user_mapper, ... = create_X(ratings)
CreateX ==
    /\ pc = "create_X"
    /\ LET r == create_X(ratings)
       IN  /\ X' = r.X
           /\ user_mapper' = r.user_mapper
           /\ movie_mapper' = r.movie_mapper
           /\ user_inv_mapper' = r.user_inv_mapper
           /\ movie_inv_mapper' = r.movie_inv_mapper
    /\ pc' = "title_mappers"
    /\ UNCHANGED <<ratings, movies, title_mappers, queries, model, related,
                   display, recommendations>>

\* movie_title_mapper = dict(zip(movies['title'], movies['movieId']))
\* movie_title_inv_mapper = dict(zip(movies['movieId'], movies['title']))
TitleMappers ==
    /\ pc = "title_mappers"
    /\ movie_title_mapper' =
           dict(zip(Column(movies, "title"), Column(movies, "movieId")))
    /\ movie_title_inv_mapper' =
           dict(zip(Column(movies, "movieId"), Column(movies, "title")))
    /\ pc' = "fit"
    /\ UNCHANGED <<ratings, movies, queries, X, mappers, model, related,
                   display, recommendations>>

\* model = AlternatingLeastSquares(factors=50); model.fit(X)
Fit ==
    /\ pc = "fit"
    /\ X.ok
    /\ model' = fit(X)
    /\ pc' = "similar_items"
    /\ UNCHANGED <<ratings, movies, title_mappers, queries, X, mappers,
                   related, display, recommendations>>

\* movie_index = get_movie_index(movie_of_interest)
\* related = model.similar_items(movie_index)
\* A KeyError of the first line ends the cell: related stays unassigned.
SimilarItems ==
    /\ pc = "similar_items"
    /\ \E fuzzy \in movie_finder(movies) :
           LET g == get_movie_index(fuzzy, movie_title_mapper, movie_mapper)
           IN  /\ fuzzy_title' = fuzzy
               /\ movie_index_g' = g.result
               /\ movie_mapper' = g.movie_mapper
               /\ IF g.result.status = "ok"
                  THEN related' \in similar_items(model, g.result.movie_idx)
                  ELSE related' = related
    /\ pc' = "display"
    /\ UNCHANGED <<ratings, movies, title_mappers, user_id, user_idx, X,
                   user_mapper, user_inv_mapper, movie_inv_mapper, model,
                   display, recommendations>>

\* print(f"Because you watched {movie_finder(movie_of_interest)}...")
\* for r in related: ...
DisplayRelated ==
    /\ pc = "display"
    /\ display' = display_related(related, fuzzy_title, movie_inv_mapper,
                                  movie_title_inv_mapper)
    /\ pc' = "recommend"
    /\ UNCHANGED <<ratings, movies, title_mappers, queries, X, mappers, model,
                   related, recommendations>>

\* X_t = X.T.tocsr(); user_idx = user_mapper[user_id];
\* recommendations = model.recommend(user_idx, X_t)
\* A KeyError of user_mapper[user_id] ends the cell: recommendations stays
\* unassigned.
Recommend ==
    /\ pc = "recommend"
    /\ \E uid \in UserIds :
           LET X_t == Transpose(X)
               idx == getitem(user_mapper, uid)
           IN  /\ user_id' = uid
               /\ user_idx' = [called |-> TRUE, status |-> idx.status,
                               value |-> idx.value]
               /\ IF idx.status = "ok"
                  THEN recommendations' = recommend(model, idx.value, X_t)
                  ELSE recommendations' = recommendations
    /\ pc' = "done"
    /\ UNCHANGED <<ratings, movies, title_mappers, fuzzy_title, movie_index_g,
                   X, mappers, model, related, display>>

Next ==
    CreateX \/ TitleMappers \/ Fit \/ SimilarItems \/ DisplayRelated \/ Recommend

Spec == Init /\ [][Next]_vars

---------------------------------------------------------------------------
\* what the loaded table holds, for the statements below

RawUsers == Range(Column(ratings, "userId"))
RawMovies == Range(Column(ratings, "movieId"))

RECURSIVE SeqSum(_)
SeqSum(s) == IF s = <<>> THEN 0 ELSE Head(s) + SeqSum(Tail(s))

\* the ratings of the records of one (user, movie) pair, in input order
PairRatings(u, m) ==
    LET sel == SelectSeq(ratings, LAMBDA r : r.userId = u /\ r.movieId = m)
    IN  [i \in 1..Len(sel) |-> sel[i].rating]

Built == pc # "create_X"

\* the movie id the resolved title stands for in the catalogue
ResolvedId == movie_title_mapper[fuzzy_title]

C2_OrientationConsistent ==
    /\ related.called => model.items_axis = "movie"
    /\ recommendations.called => model.users_axis = recommendations.rows_axis

\* C3: recommend for one user index fails with the shape error exactly when
\* the interaction argument does not have exactly one row; the notebook passes
\* the whole user-by-item matrix X_t, so the call fails whenever the table has
\* more than one user and is accepted on shape only with a single user.
C3_RecommendRowCheck ==
    recommendations.called =>
        /\ recommendations.rows = Cardinality(RawUsers)
        /\ recommendations.rows_axis = "user"
        /\ (recommendations.rows # 1 <=> recommendations.status = "ValueError")
        /\ (recommendations.rows = 1 <=> recommendations.status = "shape_ok")

\* recommend was given the full matrix of two users and raised
C3_Witness ==
    /\ recommendations.called
    /\ recommendations.rows = 2
    /\ recommendations.status = "ValueError"

\* C5 (as claimed): similar_items for a valid movie index returns that index
\* first.
C5_SelfIsTopResult ==
    related.called =>
        /\ related.status = "ok"
        /\ Len(related.ids) >= 1
        /\ related.ids[1] = related.itemid

\* C6 (as claimed): for a (user, movie) pair with several records the matrix
\* stores the rating of the last of them.
C6_LastValueWins ==
    Built =>
        \A u \in RawUsers, m \in RawMovies :
            LET w == PairRatings(u, m)
            IN  Len(w) >= 1 =>
                    Get(X, movie_mapper[m], user_mapper[u]) = w[Len(w)]

\* C6 (amended): for every (user, movie) pair with at least one record the
\* matrix stores the sum of the ratings of all the records of that pair.
C6_DuplicatesSummed ==
    Built =>
        \A u \in RawUsers, m \in RawMovies :
            LET w == PairRatings(u, m)
            IN  Len(w) >= 1 =>
                    /\ <<movie_mapper[m], user_mapper[u]>> \in DOMAIN X.cells
                    /\ Get(X, movie_mapper[m], user_mapper[u]) = SeqSum(w)

\* the matrix was built from two records of the same pair, both of positive
\* rating
C6_Witness ==
    /\ Built
    /\ Len(ratings) = 2
    /\ ratings[1].userId = ratings[2].userId
    /\ ratings[1].movieId = ratings[2].movieId
    /\ ratings[1].rating > 0
    /\ ratings[2].rating > 0

C11_UnknownIdFails ==
    movie_index_g.called =>
        /\ (ResolvedId \notin RawMovies <=> movie_index_g.status = "KeyError")
        /\ (ResolvedId \in RawMovies =>
               /\ movie_index_g.status = "ok"
               /\ movie_index_g.movie_idx \in 0..(Cardinality(RawMovies) - 1)
               /\ movie_inv_mapper[movie_index_g.movie_idx] = ResolvedId)
        /\ (movie_index_g.status = "KeyError" => ~related.called)

\* C11: user_mapper[user_id] fails with KeyError, and no recommendation is
\* asked for, exactly when user_id has no record in the ratings; otherwise it
\* gives that user's dense index, inside 0..N-1.
C11_UnknownUserFails ==
    user_idx.called =>
        /\ (user_id \notin RawUsers <=> user_idx.status = "KeyError")
        /\ (user_id \in RawUsers =>
               /\ user_idx.status = "ok"
               /\ user_idx.value \in 0..(Cardinality(RawUsers) - 1)
               /\ user_inv_mapper[user_idx.value] = user_id)
        /\ (user_idx.status = "KeyError" => ~recommendations.called)

\* C11: resolving an id the mapper was not built from fails with KeyError and
\* yields no index, for the movie lookup of get_movie_index and for the user
\* lookup alike; an id of the ratings resolves to its dense index.
C11_UnknownIdentifier == C11_UnknownIdFails /\ C11_UnknownUserFails

\* the title of a catalogue movie without ratings was looked up, while
\* another movie has ratings
C11_Witness ==
    /\ movie_index_g.called
    /\ movie_index_g.status = "KeyError"
    /\ ResolvedId \notin RawMovies
    /\ RawMovies # {}

\* C12: similar_items and recommend never mutate the model: no step of the
\* cells that run after training, whether its call returns or raises, changes
\* the fitted model or any of the four id mappers.
C12_QueriesLeaveModelUnchanged ==
    [][(pc \in {"similar_items", "display", "recommend"}) =>
          (model' = model /\ mappers' = mappers)]_vars

\* both queries have run after training, similar_items returning its result
\* and recommend raising, on a model that was fitted
C12_Witness ==
    /\ pc = "done"
    /\ model.fitted
    /\ related.called
    /\ related.status = "ok"
    /\ recommendations.called
    /\ recommendations.status = "ValueError"

\* the titles of the returned ids other than the queried movie, in order
RECURSIVE OtherTitles(_)
OtherTitles(ids) ==
    IF ids = <<>> THEN <<>>
    ELSE LET t == movie_title_inv_mapper[movie_inv_mapper[Head(ids)]]
         IN  (IF t # fuzzy_title THEN <<t>> ELSE <<>>) \o OtherTitles(Tail(ids))

\* C13 (as claimed): when similar_items has returned, the display loop calls
\* get_movie_title once for each returned id, in order, with that id, never
\* with a score, and prints the title of every returned id that is not the
\* queried movie.
C13_DisplayOneCallPerItem ==
    (display.called /\ related.status = "ok") =>
        /\ Len(display.calls) = Len(related.ids)
        /\ \A i \in DOMAIN display.calls :
               display.calls[i] = [source |-> "ids", value |-> related.ids[i]]
        /\ display.status = "ok"
        /\ display.printed = OtherTitles(related.ids)

====
